---- MODULE Spec2Model ----
(***************************************************************************)
(* Transaction construction and signing pipeline of the multichain wallet: *)
(* the JSON-RPC transport (request), the raw contract-call builder         *)
(* (smartContractSend), the chain context resolver (getContract), the      *)
(* transfer orchestrator (transfer) and the token metadata query           *)
(* (getTokenInfo).                                                         *)
(*                                                                         *)
(* Three specifications share the module: SpecSend (request +              *)
(* smartContractSend), Spec (getContract + transfer against one account,   *)
(* two concurrent invocations) and SpecInfo (getContract + getTokenInfo).  *)
(***************************************************************************)
EXTENDS Integers, Sequences, FiniteSets, TLC

VARIABLES
  \* ---- smartContractSend / request ----
  scArgs,        \* the ISmartContractCallPayload of the running invocation
  scPc,          \* position of the async function
  rpc,           \* the promise returned by the request() call in flight
  rpcLog,        \* RPC requests posted so far by this invocation, in order,
                 \* each with the kind of response body that came back
  scData,        \* const data = abiInterface.encodeFunctionData(...)
  scEstimateGas, \* const estimateGas
  scNonce,       \* const nonce
  scTx,          \* const tx = Transaction.fromTxData(...)
  scSigned,      \* const signedTx = tx.sign(...)
  scResult,      \* what the caller of smartContractSend observes
  \* ---- transfer / getContract ----
  tArgs,         \* per invocation: the TransferPayload
  tPc,           \* per invocation: position of the async function
  tCtx,          \* per invocation: what getContract returned
  tNonce,        \* per invocation: the un-awaited getTransactionCount promise
  tDecimals,     \* per invocation: const decimals = await contract.decimals()
  tCalls,        \* per invocation: chain-client calls made, in order
  tTx,           \* per invocation: the transaction handed to the network
  tResult,       \* per invocation: what the caller of transfer observes
  chain,         \* the account's state on the network
  \* ---- getTokenInfo ----
  iArgs,         \* the IGetTokenInfoPayload
  iPc,           \* position of the async function
  iCtx,          \* what getContract returned, once it has
  iReads,        \* the four promises handed to Promise.all, by position
  iOrder,        \* the order in which the four reads settled
  iResult        \* what the caller of getTokenInfo observes

sendVars == <<scArgs, scPc, rpc, rpcLog, scData, scEstimateGas, scNonce, scTx,
              scSigned, scResult>>
transferVars == <<tArgs, tPc, tCtx, tNonce, tDecimals, tCalls, tTx, tResult, chain>>
infoVars == <<iArgs, iPc, iCtx, iReads, iOrder, iResult>>
vars == <<sendVars, transferVars, infoVars>>

(***************************************************************************)
(* JavaScript values.  Every value is a record of the same shape so that   *)
(* values of different JavaScript types can be compared.  An object is the *)
(* error object of an RPC response: num = 1 when it has a message property *)
(* and str is then that message.                                           *)
(***************************************************************************)
Undefined == [type |-> "undefined", num |-> 0, str |-> ""]
Null == [type |-> "null", num |-> 0, str |-> ""]
Num(n) == [type |-> "number", num |-> n, str |-> ""]
Str(s) == [type |-> "string", num |-> 0, str |-> s]
Bool(b) == [type |-> "boolean", num |-> IF b THEN 1 ELSE 0, str |-> ""]
ErrObj(m) == [type |-> "object", num |-> 1, str |-> m]
ErrObjNoMessage == [type |-> "object", num |-> 0, str |-> ""]

\* typeof v
TypeOf(v) == IF v.type = "null" THEN "object" ELSE v.type

\* !!v
Truthy(v) ==
  CASE v.type = "undefined" -> FALSE
    [] v.type = "null" -> FALSE
    [] v.type = "number" -> v.num # 0
    [] v.type = "string" -> v.str # ""
    [] v.type = "boolean" -> v.num = 1
    [] OTHER -> TRUE

\* a || b
Or(a, b) == IF Truthy(a) THEN a ELSE b

\* v.message
MessageOf(v) == IF v.type = "object" /\ v.num = 1 THEN Str(v.str) ELSE Undefined

\* new Error(v).message, i.e. String(v), for the values an error field takes
ErrorText(v) ==
  CASE v.type = "string" -> v.str
    [] v.type = "object" -> "[object Object]"
    [] v.type = "undefined" -> ""
    [] v.type = "null" -> "null"
    [] v.type = "boolean" -> IF v.num = 1 THEN "true" ELSE "false"
    [] OTHER -> "number"

\* The decimal strings the model uses, read as numbers.
ParseDecimal(s) ==
  CASE s = "0" -> 0
    [] s = "1" -> 1
    [] s = "2" -> 2
    [] s = "100" -> 100
    [] OTHER -> -1

\* Number of decimals of a named unit.
UnitDecimals(unit) ==
  CASE unit = "gwei" -> 9
    [] unit = "ether" -> 18
    [] OTHER -> 0

\* A BigNumber m * 10^e, kept with m not divisible by ten so that equal
\* quantities are equal records.
RECURSIVE BigNumber(_, _)
BigNumber(m, e) ==
  IF m = 0 THEN [mant |-> 0, exp |-> 0]
  ELSE IF m % 10 = 0 THEN BigNumber(m \div 10, e + 1)
  ELSE [mant |-> m, exp |-> e]

\* parseUnits(n.toString(), decimals) for a whole number n
parseUnits(n, decimals) == BigNumber(n, decimals)

(***************************************************************************)
(* request: the JSON-RPC transport.                                        *)
(***************************************************************************)
NoResponse == [result |-> Undefined, error |-> Undefined]

\* The result fields and error fields a node's response body may carry.
Results == {Undefined, Null, Num(0), Bool(FALSE), Str(""), Str("0x5208"), Str("0x7")}
Errors == {Undefined, Null, Str(""), Str("nonce too low"),
           ErrObj("execution reverted"), ErrObj(""), ErrObjNoMessage}
Responses == [result : Results, error : Errors]

NoRpc == [method |-> "", params |-> <<>>, state |-> "none", res |-> NoResponse,
          value |-> Undefined, message |-> ""]

\* request(url, body): the promise is created and axios.post is issued.
request(method, params) ==
  [method |-> method, params |-> params, state |-> "posted", res |-> NoResponse,
   value |-> Undefined, message |-> ""]

\* A then-callback that treats an error envelope as a result.
thenCallbackResolvesError(res) ==
  IF TypeOf(res.result) # "undefined" \/ Truthy(res.result) \/ Truthy(res.error)
  THEN [state |-> "resolved", value |-> res.result, message |-> ""]
  ELSE [state |-> "unsettled", value |-> Undefined, message |-> ""]

\* The then-callback of axios.post: how the promise settles on a response.
\* "unsettled": the callback ran and called neither resolve nor reject.
thenCallback(res) ==
  IF TypeOf(res.result) # "undefined" \/ Truthy(res.result)
  THEN [state |-> "resolved", value |-> res.result, message |-> ""]
  ELSE IF Truthy(res.error)
  THEN [state |-> "rejected", value |-> Undefined,
        message |-> ErrorText(Or(MessageOf(res.error), res.error))]
  ELSE [state |-> "unsettled", value |-> Undefined, message |-> ""]

\* The kind of a response body: it carries a result, or else an error
\* envelope, or else neither.
AnswerKind(res) ==
  IF res.result # Undefined THEN "result"
  ELSE IF Truthy(res.error) THEN "error"
  ELSE "neither"

\* A request just posted, as the log records it.
Posted(method) == [method |-> method, answer |-> ""]

\* The node answers the posted request with some response body.
axiosRespond(res) ==
  /\ rpc.state = "posted"
  /\ rpc' = [rpc EXCEPT !.state = "responded", !.res = res]
  /\ rpcLog' = [rpcLog EXCEPT ![Len(rpcLog)].answer = AnswerKind(res)]
  /\ UNCHANGED <<scArgs, scPc, scData, scEstimateGas, scNonce, scTx,
                 scSigned, scResult>>
  /\ UNCHANGED <<transferVars, infoVars>>

\* axios.post rejects (no response): request attaches no rejection handler,
\* so the promise it returned is never settled.
axiosReject ==
  /\ rpc.state = "posted"
  /\ rpc' = [rpc EXCEPT !.state = "failed"]
  /\ UNCHANGED <<scArgs, scPc, rpcLog, scData, scEstimateGas, scNonce, scTx,
                 scSigned, scResult>>
  /\ UNCHANGED <<transferVars, infoVars>>

\* The then-callback runs on the response.
requestThen ==
  /\ rpc.state = "responded"
  /\ LET s == thenCallback(rpc.res) IN
       rpc' = [rpc EXCEPT !.state = s.state, !.value = s.value,
                          !.message = s.message]
  /\ UNCHANGED <<scArgs, scPc, rpcLog, scData, scEstimateGas, scNonce, scTx,
                 scSigned, scResult>>
  /\ UNCHANGED <<transferVars, infoVars>>

(***************************************************************************)
(* smartContractSend: the raw contract-call builder.                       *)
(***************************************************************************)
\* Method names of the default fungible-token ABI.
erc20Abi == {"name", "symbol", "decimals", "totalSupply", "balanceOf", "transfer"}

NoAbi == [defined |-> FALSE, methods |-> {}]
CustomAbi == [defined |-> TRUE, methods |-> {"mint"}]

PrivateKey == "0xkey"
\* new Wallet(privateKey).address
AddressOf(key) == IF key = "0xkey" THEN "0xsigner" ELSE "0xother"

NoData == [method |-> "", params |-> <<>>]
\* abiInterface.encodeFunctionData(method, params): selector and arguments
encodeFunctionData(method, params) == [method |-> method, params |-> params]

SendArgs ==
  [contractAddress : {"0xcontract"},
   method : {"transfer", "mint"},
   params : {<<"0xrecipient", "5">>},
   contractAbi : {NoAbi, CustomAbi},
   gasPrice : {Undefined, Str("2")},
   gasLimit : {Undefined, Num(50000)},
   chainId : {Undefined, Num(56)},
   privateKey : {PrivateKey}]

NoSendArgs ==
  [contractAddress |-> "", method |-> "", params |-> <<>>, contractAbi |-> NoAbi,
   gasPrice |-> Undefined, gasLimit |-> Undefined, chainId |-> Undefined,
   privateKey |-> ""]

NoTx == [nonce |-> Undefined, to |-> "", gasLimit |-> Undefined,
         gasPrice |-> BigNumber(0, 0), data |-> NoData]
NoSigned == [signed |-> FALSE, chainId |-> 0, from |-> ""]
NoSendResult == [kind |-> "none", txHash |-> Undefined, message |-> ""]

\* Common.custom({ chainId }): the chain a signature is scoped to.  With no
\* chainId the library is handed { chainId: undefined }: the source does not
\* check it, and the library either rejects the parameters or reads the
\* missing id as the number 0.
CommonCustom(chainId) ==
  IF chainId.type = "number"
  THEN {[ok |-> TRUE, chainId |-> chainId.num]}
  ELSE {[ok |-> TRUE, chainId |-> 0], [ok |-> FALSE, chainId |-> 0]}

\* Transaction.fromTxData({ nonce, to, gasLimit, gasPrice }, { common }):
\* a field the source does not pass (data) keeps the library default, empty.
fromTxData(a, nonce, estimateGas) ==
  [nonce |-> nonce,
   to |-> a.contractAddress,
   gasLimit |-> IF Truthy(a.gasLimit) THEN a.gasLimit ELSE estimateGas,
   gasPrice |-> parseUnits(ParseDecimal(Or(a.gasPrice, Str("100")).str),
                           UnitDecimals("gwei")),
   data |-> NoData]

\* Entry: encode the call data, then post eth_estimateGas.
smartContractSend(a) ==
  /\ scPc = "idle"
  /\ scArgs' = a
  /\ LET abi == IF a.contractAbi.defined THEN a.contractAbi.methods ELSE erc20Abi IN
       IF a.method \notin abi
       THEN \* encodeFunctionData throws; the catch block rethrows
            /\ scPc' = "raised"
            /\ scResult' = [kind |-> "raised", txHash |-> Undefined,
                            message |-> "no matching function"]
            /\ UNCHANGED <<rpc, rpcLog, scData>>
       ELSE /\ scData' = encodeFunctionData(a.method, a.params)
            /\ rpc' = request("eth_estimateGas",
                              <<[from |-> AddressOf(a.privateKey),
                                 to |-> a.contractAddress,
                                 data |-> encodeFunctionData(a.method, a.params)]>>)
            /\ rpcLog' = Append(rpcLog, Posted("eth_estimateGas"))
            /\ scPc' = "estimateGas"
            /\ UNCHANGED scResult
  /\ UNCHANGED <<scEstimateGas, scNonce, scTx, scSigned>>
  /\ UNCHANGED <<transferVars, infoVars>>

\* await request(eth_estimateGas) resolved: post eth_getTransactionCount.
estimateGasResolved ==
  /\ scPc = "estimateGas"
  /\ rpc.state = "resolved"
  /\ scEstimateGas' = rpc.value
  /\ rpc' = request("eth_getTransactionCount",
                    <<AddressOf(scArgs.privateKey), "latest">>)
  /\ rpcLog' = Append(rpcLog, Posted("eth_getTransactionCount"))
  /\ scPc' = "getTransactionCount"
  /\ UNCHANGED <<scArgs, scData, scNonce, scTx, scSigned, scResult>>
  /\ UNCHANGED <<transferVars, infoVars>>

\* await request(eth_getTransactionCount) resolved: build, sign, serialize and
\* post eth_sendRawTransaction.
getTransactionCountResolved ==
  /\ scPc = "getTransactionCount"
  /\ rpc.state = "resolved"
  /\ scNonce' = rpc.value
  /\ \E common \in CommonCustom(scArgs.chainId) :
       IF ~common.ok
       THEN /\ scPc' = "raised"
            /\ scResult' = [kind |-> "raised", txHash |-> Undefined,
                            message |-> "invalid chain parameters"]
            /\ UNCHANGED <<rpc, rpcLog, scTx, scSigned>>
       ELSE LET tx == fromTxData(scArgs, rpc.value, scEstimateGas)
                signedTx == [signed |-> TRUE, chainId |-> common.chainId,
                             from |-> AddressOf(scArgs.privateKey)]
            IN /\ scTx' = tx
               /\ scSigned' = signedTx
               /\ rpc' = request("eth_sendRawTransaction",
                                 <<[tx |-> tx, signature |-> signedTx]>>)
               /\ rpcLog' = Append(rpcLog, Posted("eth_sendRawTransaction"))
               /\ scPc' = "sendRawTransaction"
               /\ UNCHANGED scResult
  /\ UNCHANGED <<scArgs, scData, scEstimateGas>>
  /\ UNCHANGED <<transferVars, infoVars>>

\* await request(eth_sendRawTransaction) resolved: return the hash.
sendRawTransactionResolved ==
  /\ scPc = "sendRawTransaction"
  /\ rpc.state = "resolved"
  /\ scPc' = "returned"
  /\ scResult' = [kind |-> "returned", txHash |-> rpc.value, message |-> ""]
  /\ UNCHANGED <<scArgs, rpc, rpcLog, scData, scEstimateGas, scNonce, scTx, scSigned>>
  /\ UNCHANGED <<transferVars, infoVars>>

\* An awaited request rejected: catch (error) { throw error; }
smartContractSendCatch ==
  /\ scPc \in {"estimateGas", "getTransactionCount", "sendRawTransaction"}
  /\ rpc.state = "rejected"
  /\ scPc' = "raised"
  /\ scResult' = [kind |-> "raised", txHash |-> Undefined, message |-> rpc.message]
  /\ UNCHANGED <<scArgs, rpc, rpcLog, scData, scEstimateGas, scNonce, scTx, scSigned>>
  /\ UNCHANGED <<transferVars, infoVars>>

InitSendVars ==
  /\ scArgs = NoSendArgs
  /\ scPc = "idle"
  /\ rpc = NoRpc
  /\ rpcLog = <<>>
  /\ scData = NoData
  /\ scEstimateGas = Undefined
  /\ scNonce = Undefined
  /\ scTx = NoTx
  /\ scSigned = NoSigned
  /\ scResult = NoSendResult

(***************************************************************************)
(* getContract: the chain context resolver.                                *)
(***************************************************************************)
NoContract == [bound |-> FALSE, address |-> "", withSigner |-> FALSE]

\* A resolver whose first branch tests the private key alone.
getContractSignerFirst(privateKey, contractAddress, gasPrice) ==
  IF Truthy(privateKey)
  THEN [contract |-> NoContract, signer |-> TRUE, gasPrice |-> gasPrice,
        nonce |-> TRUE]
  ELSE IF Truthy(contractAddress)
  THEN [contract |-> [bound |-> TRUE, address |-> contractAddress.str,
                      withSigner |-> FALSE],
        signer |-> FALSE, gasPrice |-> gasPrice, nonce |-> FALSE]
  ELSE [contract |-> NoContract, signer |-> FALSE, gasPrice |-> gasPrice,
        nonce |-> FALSE]

\* What getContract returns once the awaited gas price has arrived.  nonce
\* tells whether a getTransactionCount promise was created: the source does
\* not await it, the returned nonce is the promise itself.
getContract(privateKey, contractAddress, gasPrice) ==
  IF Truthy(privateKey) /\ Truthy(contractAddress)
  THEN [contract |-> [bound |-> TRUE, address |-> contractAddress.str,
                      withSigner |-> TRUE],
        signer |-> TRUE, gasPrice |-> gasPrice, nonce |-> TRUE]
  ELSE IF Truthy(privateKey) /\ ~Truthy(contractAddress)
  THEN [contract |-> NoContract, signer |-> TRUE, gasPrice |-> gasPrice,
        nonce |-> TRUE]
  ELSE IF Truthy(contractAddress) /\ ~Truthy(privateKey)
  THEN [contract |-> [bound |-> TRUE, address |-> contractAddress.str,
                      withSigner |-> FALSE],
        signer |-> FALSE, gasPrice |-> gasPrice, nonce |-> FALSE]
  ELSE [contract |-> NoContract, signer |-> FALSE, gasPrice |-> gasPrice,
        nonce |-> FALSE]

NoCtx == [contract |-> NoContract, signer |-> FALSE, gasPrice |-> BigNumber(0, 0),
          nonce |-> FALSE]

(***************************************************************************)
(* transfer: the transfer orchestrator.  Transfers are the concurrent      *)
(* invocations, all from the account of PrivateKey.  The network keeps the *)
(* account's transaction count and takes a transaction only when its nonce *)
(* is that count.                                                          *)
(***************************************************************************)
Transfers == {"t1", "t2"}

\* Largest nonce a caller passes as an override.
MaxNonce == 1

\* What providerInstance.getGasPrice() answers.
FetchedGasPrice == BigNumber(5, UnitDecimals("gwei"))
\* What contract.estimateGas.transfer answers.
EstimatedGas == Num(60000)
\* What contract.decimals() may answer.
TokenDecimals == {0, 6}

\* The requests callers make: every combination of token address and of the
\* three overrides, and the requests with a data payload and no override.
TransferArgs ==
  {a \in [recipientAddress : {"0xrecipient"},
          amount : {1},
          privateKey : {Str(PrivateKey)},
          tokenAddress : {Undefined, Str("0xtoken")},
          gasPrice : {Undefined, Str("2")},
          nonce : {Undefined} \cup {Num(n) : n \in 0..MaxNonce},
          gasLimit : {Undefined, Num(50000)},
          data : {Undefined, Str("hi")}] :
     Truthy(a.data) =>
       a.gasPrice = Undefined /\ a.nonce = Undefined /\ a.gasLimit = Undefined}

NoTransferArgs ==
  [recipientAddress |-> "", amount |-> 0, privateKey |-> Undefined,
   tokenAddress |-> Undefined, gasPrice |-> Undefined, nonce |-> Undefined,
   gasLimit |-> Undefined, data |-> Undefined]

NoPromise == [state |-> "none", value |-> Undefined]
NoTransferTx ==
  [sent |-> FALSE, method |-> "", to |-> "", recipient |-> "",
   amount |-> BigNumber(0, 0), gasPrice |-> BigNumber(0, 0), nonce |-> Undefined,
   gasLimit |-> Undefined, data |-> "", status |-> "", error |-> ""]
NoTransferResult == [kind |-> "none", message |-> ""]

\* ethers.utils.hexlify(ethers.utils.toUtf8Bytes(s))
hexlifyUtf8(s) == IF s = "hi" THEN "0x6869" ELSE "0x"

\* gasPrice: args.gasPrice ? parseUnits(args.gasPrice.toString(), 'gwei') : gasPrice
gasPriceOf(a, ctx) ==
  IF Truthy(a.gasPrice)
  THEN parseUnits(ParseDecimal(a.gasPrice.str), UnitDecimals("gwei"))
  ELSE ctx.gasPrice

\* args.nonce || nonce takes the caller's value exactly when it is truthy.
nonceOverride(a) == Truthy(a.nonce)

\* The transaction contract.transfer(recipient, amount, overrides) submits.
tokenTx(a, ctx, decimals, estimatedGas, nonce) ==
  [sent |-> TRUE, method |-> "transfer", to |-> ctx.contract.address,
   recipient |-> a.recipientAddress,
   amount |-> parseUnits(a.amount, decimals),
   gasPrice |-> gasPriceOf(a, ctx),
   nonce |-> nonce,
   gasLimit |-> Or(a.gasLimit, estimatedGas),
   data |-> "", status |-> "", error |-> ""]

\* The transaction wallet.sendTransaction({to, value, gasPrice, nonce, data})
\* submits.  The source passes no gasLimit: it is left to the signer.
nativeTx(a, ctx, nonce) ==
  [sent |-> TRUE, method |-> "sendTransaction", to |-> a.recipientAddress,
   recipient |-> a.recipientAddress,
   amount |-> parseUnits(a.amount, UnitDecimals("ether")),
   gasPrice |-> gasPriceOf(a, ctx),
   nonce |-> nonce,
   gasLimit |-> Undefined,
   data |-> IF Truthy(a.data) THEN hexlifyUtf8(a.data.str) ELSE "0x",
   status |-> "", error |-> ""]

\* A catch block that submits again instead of rethrowing.
transferCatchRetry(message) == [pc |-> "submit", kind |-> "none", message |-> ""]

\* catch (error) { throw error; } around the submission.
transferCatch(message) == [pc |-> "raised", kind |-> "raised", message |-> message]

\* Entry: getContract is called and awaits providerInstance.getGasPrice().
transfer(t, a) ==
  /\ tPc[t] = "idle"
  /\ tArgs' = [tArgs EXCEPT ![t] = a]
  /\ tPc' = [tPc EXCEPT ![t] = "getGasPrice"]
  /\ tCalls' = [tCalls EXCEPT ![t] = Append(@, "getGasPrice")]
  /\ UNCHANGED <<tCtx, tNonce, tDecimals, tTx, tResult, chain>>
  /\ UNCHANGED <<sendVars, infoVars>>

\* The gas price fetch failed: getContract raises, and so does transfer.
getGasPriceFailed(t) ==
  /\ tPc[t] = "getGasPrice"
  /\ tPc' = [tPc EXCEPT ![t] = "raised"]
  /\ tResult' = [tResult EXCEPT ![t] = [kind |-> "raised", message |-> "could not detect network"]]
  /\ UNCHANGED <<tArgs, tCtx, tNonce, tDecimals, tCalls, tTx, chain>>
  /\ UNCHANGED <<sendVars, infoVars>>

\* The gas price arrived: getContract starts the nonce fetch without awaiting
\* it and returns; transfer runs on to its next await.
getGasPriceResolved(t) ==
  /\ tPc[t] = "getGasPrice"
  /\ LET ctx == getContract(tArgs[t].privateKey, tArgs[t].tokenAddress, FetchedGasPrice) IN
       /\ tCtx' = [tCtx EXCEPT ![t] = ctx]
       /\ tNonce' = [tNonce EXCEPT ![t] =
                       IF ctx.nonce THEN [state |-> "pending", value |-> Undefined]
                       ELSE NoPromise]
       /\ IF ctx.contract.bound
          THEN /\ tPc' = [tPc EXCEPT ![t] = "decimals"]
               /\ tCalls' = [tCalls EXCEPT ![t] =
                    (IF ctx.nonce THEN Append(@, "getTransactionCount") ELSE @)
                      \o <<"decimals">>]
          ELSE /\ tPc' = [tPc EXCEPT ![t] = "submit"]
               /\ tCalls' = [tCalls EXCEPT ![t] =
                    IF ctx.nonce THEN Append(@, "getTransactionCount") ELSE @]
  /\ UNCHANGED <<tArgs, tDecimals, tTx, tResult, chain>>
  /\ UNCHANGED <<sendVars, infoVars>>

\* The node answers getTransactionCount with the account's current count.
nonceFetchResolved(t) ==
  /\ tNonce[t].state = "pending"
  /\ tNonce' = [tNonce EXCEPT ![t] = [state |-> "fulfilled", value |-> Num(chain.count)]]
  /\ UNCHANGED <<tArgs, tPc, tCtx, tDecimals, tCalls, tTx, tResult, chain>>
  /\ UNCHANGED <<sendVars, infoVars>>

\* The nonce fetch fails: the un-awaited promise rejects.
nonceFetchRejected(t) ==
  /\ tNonce[t].state = "pending"
  /\ tNonce' = [tNonce EXCEPT ![t] = [state |-> "rejected", value |-> Undefined]]
  /\ UNCHANGED <<tArgs, tPc, tCtx, tDecimals, tCalls, tTx, tResult, chain>>
  /\ UNCHANGED <<sendVars, infoVars>>

\* await contract.decimals() resolved: estimateGas.transfer is called.
decimalsResolved(t, d) ==
  /\ tPc[t] = "decimals"
  /\ tPc' = [tPc EXCEPT ![t] = "estimateGas"]
  /\ tDecimals' = [tDecimals EXCEPT ![t] = d]
  /\ tCalls' = [tCalls EXCEPT ![t] = Append(@, "estimateGas.transfer")]
  /\ UNCHANGED <<tArgs, tCtx, tNonce, tTx, tResult, chain>>
  /\ UNCHANGED <<sendVars, infoVars>>

\* await contract.estimateGas.transfer(...) resolved: contract.transfer is next.
estimateGasTransferResolved(t) ==
  /\ tPc[t] = "estimateGas"
  /\ tPc' = [tPc EXCEPT ![t] = "submit"]
  /\ UNCHANGED <<tArgs, tCtx, tNonce, tDecimals, tCalls, tTx, tResult, chain>>
  /\ UNCHANGED <<sendVars, infoVars>>

\* A contract read (decimals, estimateGas.transfer) fails: transfer rethrows.
contractReadFailed(t) ==
  /\ tPc[t] \in {"decimals", "estimateGas"}
  /\ tPc' = [tPc EXCEPT ![t] = "raised"]
  /\ tResult' = [tResult EXCEPT ![t] = [kind |-> "raised", message |-> "call exception"]]
  /\ UNCHANGED <<tArgs, tCtx, tNonce, tDecimals, tCalls, tTx, chain>>
  /\ UNCHANGED <<sendVars, infoVars>>

\* The nonce the submission needs is the fetched one and its fetch failed:
\* resolving the transaction's properties raises inside the try block.
submitNonceRejected(t) ==
  /\ tPc[t] = "submit"
  /\ ~nonceOverride(tArgs[t])
  /\ tNonce[t].state = "rejected"
  /\ tPc' = [tPc EXCEPT ![t] = "raised"]
  /\ tResult' = [tResult EXCEPT ![t] = [kind |-> "raised", message |-> "could not detect network"]]
  /\ UNCHANGED <<tArgs, tCtx, tNonce, tDecimals, tCalls, tTx, chain>>
  /\ UNCHANGED <<sendVars, infoVars>>

\* contract.transfer(...) or wallet.sendTransaction(...): the transaction is
\* built with nonce = args.nonce || nonce and reaches the network, which
\* takes it when its nonce is the account's count and the account can pay.
submit(t, funded) ==
  /\ tPc[t] = "submit"
  /\ nonceOverride(tArgs[t]) \/ tNonce[t].state = "fulfilled"
  /\ LET a == tArgs[t]
         nonce == IF nonceOverride(a) THEN a.nonce ELSE tNonce[t].value
         tx == IF tCtx[t].contract.bound
               THEN tokenTx(a, tCtx[t], tDecimals[t], EstimatedGas, nonce)
               ELSE nativeTx(a, tCtx[t], nonce)
         error == IF nonce.num < chain.count THEN "nonce too low"
                  ELSE IF nonce.num > chain.count THEN "nonce too high"
                  ELSE IF ~funded THEN "insufficient funds"
                  ELSE ""
     IN /\ tCalls' = [tCalls EXCEPT ![t] = Append(@, tx.method)]
        /\ tTx' = [tTx EXCEPT ![t] =
                     [tx EXCEPT !.status = IF error = "" THEN "accepted" ELSE "rejected",
                                !.error = error]]
        /\ chain' = IF error = ""
                    THEN [count |-> chain.count + 1,
                          accepted |-> chain.accepted \cup {[by |-> t, nonce |-> nonce.num]}]
                    ELSE chain
  /\ tPc' = [tPc EXCEPT ![t] = "submitted"]
  /\ UNCHANGED <<tArgs, tCtx, tNonce, tDecimals, tResult>>
  /\ UNCHANGED <<sendVars, infoVars>>

\* The awaited submission resolved: return successResponse({...tx}).
submitResolved(t) ==
  /\ tPc[t] = "submitted"
  /\ tTx[t].status = "accepted"
  /\ tPc' = [tPc EXCEPT ![t] = "returned"]
  /\ tResult' = [tResult EXCEPT ![t] = [kind |-> "returned", message |-> ""]]
  /\ UNCHANGED <<tArgs, tCtx, tNonce, tDecimals, tCalls, tTx, chain>>
  /\ UNCHANGED <<sendVars, infoVars>>

\* The awaited submission was rejected by the network: the catch block.
submitRejected(t) ==
  /\ tPc[t] = "submitted"
  /\ tTx[t].status = "rejected"
  /\ LET c == transferCatch(tTx[t].error) IN
       /\ tPc' = [tPc EXCEPT ![t] = c.pc]
       /\ tResult' = [tResult EXCEPT ![t] = [kind |-> c.kind, message |-> c.message]]
  /\ UNCHANGED <<tArgs, tCtx, tNonce, tDecimals, tCalls, tTx, chain>>
  /\ UNCHANGED <<sendVars, infoVars>>

InitTransferVars ==
  /\ tArgs = [t \in Transfers |-> NoTransferArgs]
  /\ tPc = [t \in Transfers |-> "idle"]
  /\ tCtx = [t \in Transfers |-> NoCtx]
  /\ tNonce = [t \in Transfers |-> NoPromise]
  /\ tDecimals = [t \in Transfers |-> 0]
  /\ tCalls = [t \in Transfers |-> <<>>]
  /\ tTx = [t \in Transfers |-> NoTransferTx]
  /\ tResult = [t \in Transfers |-> NoTransferResult]
  /\ chain = [count |-> 0, accepted |-> {}]

(***************************************************************************)
(* getTokenInfo: the token metadata query.                                 *)
(***************************************************************************)
\* The four reads in the order they are handed to Promise.all.
ReadNames == <<"name", "symbol", "decimals", "totalSupply">>
Reads == {ReadNames[i] : i \in DOMAIN ReadNames}

\* What each read may answer.
ReadValues(r) ==
  CASE r = "name" -> {Str("Tether"), Str("Dai")}
    [] r = "symbol" -> {Str("USDT"), Str("DAI")}
    [] r = "decimals" -> {Num(0), Num(2)}
    [] OTHER -> {Num(150), Num(1999)}

InfoArgs == [address : {Undefined, Str(""), Str("0xtoken")}]
NoInfoArgs == [address |-> Undefined]
NoReads == [r \in Reads |-> NoPromise]
NoInfoResult ==
  [kind |-> "none", success |-> FALSE, name |-> Undefined, symbol |-> Undefined,
   decimals |-> Undefined, address |-> "", totalSupply |-> Undefined, message |-> ""]

RECURSIVE Pow10(_)
Pow10(n) == IF n = 0 THEN 1 ELSE 10 * Pow10(n - 1)

\* parseInt(ethers.utils.formatUnits(totalSupply, decimals))
formatUnitsParseInt(totalSupply, decimals) == Num(totalSupply.num \div Pow10(decimals.num))

\* An aggregate that hands the values over in the order the reads settled.
promiseAllByArrival(reads, order) == [i \in DOMAIN ReadNames |-> reads[order[i]].value]

\* Promise.all([...]): the values by the position of their promise.
promiseAll(reads, order) == [i \in DOMAIN ReadNames |-> reads[ReadNames[i]].value]

\* const [name, symbol, decimals, totalSupply] = await Promise.all(...);
\* data: ITokenInfo; successResponse({ ...data })
tokenInfoResponse(values, contract) ==
  [kind |-> "returned", success |-> TRUE, name |-> values[1], symbol |-> values[2],
   decimals |-> values[3], address |-> contract.address,
   totalSupply |-> formatUnitsParseInt(values[4], values[3]), message |-> ""]

\* Entry: getContract is called and awaits providerInstance.getGasPrice().
getTokenInfo(a) ==
  /\ iPc = "idle"
  /\ iArgs' = a
  /\ iPc' = "getGasPrice"
  /\ UNCHANGED <<iCtx, iReads, iOrder, iResult>>
  /\ UNCHANGED <<sendVars, transferVars>>

\* The gas price fetch failed: getContract raises, and so does getTokenInfo.
infoGasPriceFailed ==
  /\ iPc = "getGasPrice"
  /\ iPc' = "raised"
  /\ iResult' = [NoInfoResult EXCEPT !.kind = "raised",
                                     !.message = "could not detect network"]
  /\ UNCHANGED <<iArgs, iCtx, iReads, iOrder>>
  /\ UNCHANGED <<sendVars, transferVars>>

\* The gas price arrived and getContract returned: with a contract the four
\* reads are issued, without one the function returns undefined.
infoGasPriceResolved ==
  /\ iPc = "getGasPrice"
  /\ LET ctx == getContract(Undefined, iArgs.address, FetchedGasPrice) IN
       /\ iCtx' = [returned |-> TRUE, contract |-> ctx.contract]
       /\ IF ctx.contract.bound
          THEN /\ iPc' = "reads"
               /\ iReads' = [r \in Reads |-> [state |-> "pending", value |-> Undefined]]
               /\ UNCHANGED iResult
          ELSE /\ iPc' = "returned"
               /\ iResult' = [NoInfoResult EXCEPT !.kind = "undefined"]
               /\ UNCHANGED iReads
  /\ UNCHANGED <<iArgs, iOrder>>
  /\ UNCHANGED <<sendVars, transferVars>>

\* One of the four reads is answered.
readResolved(r, v) ==
  /\ iReads[r].state = "pending"
  /\ iReads' = [iReads EXCEPT ![r] = [state |-> "fulfilled", value |-> v]]
  /\ iOrder' = Append(iOrder, r)
  /\ UNCHANGED <<iArgs, iPc, iCtx, iResult>>
  /\ UNCHANGED <<sendVars, transferVars>>

\* One of the four reads fails.
readRejected(r) ==
  /\ iReads[r].state = "pending"
  /\ iReads' = [iReads EXCEPT ![r] = [state |-> "rejected", value |-> Undefined]]
  /\ iOrder' = Append(iOrder, r)
  /\ UNCHANGED <<iArgs, iPc, iCtx, iResult>>
  /\ UNCHANGED <<sendVars, transferVars>>

\* await Promise.all(...) resolved: all four reads are fulfilled.
promiseAllResolved ==
  /\ iPc = "reads"
  /\ \A r \in Reads : iReads[r].state = "fulfilled"
  /\ iPc' = "returned"
  /\ iResult' = tokenInfoResponse(promiseAll(iReads, iOrder), iCtx.contract)
  /\ UNCHANGED <<iArgs, iCtx, iReads, iOrder>>
  /\ UNCHANGED <<sendVars, transferVars>>

\* await Promise.all(...) rejected: a read failed.
promiseAllRejected ==
  /\ iPc = "reads"
  /\ \E r \in Reads : iReads[r].state = "rejected"
  /\ iPc' = "raised"
  /\ iResult' = [NoInfoResult EXCEPT !.kind = "raised", !.message = "call exception"]
  /\ UNCHANGED <<iArgs, iCtx, iReads, iOrder>>
  /\ UNCHANGED <<sendVars, transferVars>>

InitInfoVars ==
  /\ iArgs = NoInfoArgs
  /\ iPc = "idle"
  /\ iCtx = [returned |-> FALSE, contract |-> NoContract]
  /\ iReads = NoReads
  /\ iOrder = <<>>
  /\ iResult = NoInfoResult

(***************************************************************************)
(* Specifications.                                                         *)
(***************************************************************************)
Init == InitSendVars /\ InitTransferVars /\ InitInfoVars

\* transfer, two concurrent invocations from one account.
Next ==
  \/ \E t \in Transfers, a \in TransferArgs : transfer(t, a)
  \/ \E t \in Transfers : getGasPriceFailed(t)
  \/ \E t \in Transfers : getGasPriceResolved(t)
  \/ \E t \in Transfers : nonceFetchResolved(t)
  \/ \E t \in Transfers : nonceFetchRejected(t)
  \/ \E t \in Transfers, d \in TokenDecimals : decimalsResolved(t, d)
  \/ \E t \in Transfers : estimateGasTransferResolved(t)
  \/ \E t \in Transfers : contractReadFailed(t)
  \/ \E t \in Transfers : submitNonceRejected(t)
  \/ \E t \in Transfers, funded \in BOOLEAN : submit(t, funded)
  \/ \E t \in Transfers : submitResolved(t)
  \/ \E t \in Transfers : submitRejected(t)

Spec == Init /\ [][Next]_vars

\* smartContractSend over the request transport.
NextSend ==
  \/ \E a \in SendArgs : smartContractSend(a)
  \/ \E res \in Responses : axiosRespond(res)
  \/ axiosReject
  \/ requestThen
  \/ estimateGasResolved
  \/ getTransactionCountResolved
  \/ sendRawTransactionResolved
  \/ smartContractSendCatch

SpecSend == Init /\ [][NextSend]_vars

\* getTokenInfo.
NextInfo ==
  \/ \E a \in InfoArgs : getTokenInfo(a)
  \/ infoGasPriceFailed
  \/ infoGasPriceResolved
  \/ \E r \in Reads : \E v \in ReadValues(r) : readResolved(r, v)
  \/ \E r \in Reads : readRejected(r)
  \/ promiseAllResolved
  \/ promiseAllRejected

SpecInfo == Init /\ [][NextInfo]_vars

(***************************************************************************)
(* Properties.                                                             *)
(***************************************************************************)
\* Number of occurrences of x in the sequence q.
Count(q, x) == Cardinality({i \in DOMAIN q : q[i] = x})

ContractCalls == {"decimals", "estimateGas.transfer", "transfer"}
Submissions(t) == Count(tCalls[t], "transfer") + Count(tCalls[t], "sendTransaction")
Started(t) == tPc[t] # "idle"

C2_OverridesUsedExactly ==
  \A t \in Transfers :
    ( /\ tTx[t].sent
      /\ tArgs[t].gasPrice # Undefined
      /\ tArgs[t].nonce # Undefined
      /\ tArgs[t].gasLimit # Undefined )
    => /\ tTx[t].gasPrice = BigNumber(ParseDecimal(tArgs[t].gasPrice.str), 9)
       /\ tTx[t].nonce = tArgs[t].nonce
       /\ tTx[t].gasLimit = tArgs[t].gasLimit

\* C3: in smartContractSend a failed step aborts the pipeline.  A request
\* answered without a result is the last request posted, and unless it was the
\* broadcast itself nothing has been signed; once its then-callback has run on
\* an error envelope the promise is rejected, and the operation, once raised,
\* carries the envelope's message.  No RPC method is posted twice.
C3_FailureAborts ==
  /\ \A i \in DOMAIN rpcLog :
       rpcLog[i].answer \in {"error", "neither"} =>
         /\ i = Len(rpcLog)
         /\ rpcLog[i].method # "eth_sendRawTransaction" =>
              /\ ~scSigned.signed
              /\ scTx = NoTx
              /\ \A j \in DOMAIN rpcLog : rpcLog[j].method # "eth_sendRawTransaction"
         /\ rpcLog[i].method = "eth_estimateGas" => Len(rpcLog) = 1
         /\ scPc # "returned"
         /\ rpcLog[i].answer = "error" /\ rpc.state # "responded" =>
              /\ rpc.state = "rejected"
              /\ rpc.res.error.type = "object" /\ rpc.res.error.num = 1
                   /\ rpc.res.error.str # ""
                   => rpc.message = rpc.res.error.str
              /\ scPc = "raised" =>
                   /\ scResult.kind = "raised"
                   /\ scResult.message = rpc.message
  /\ \A i, j \in DOMAIN rpcLog : rpcLog[i].method = rpcLog[j].method => i = j

\* C3 witness: eth_estimateGas was answered {error: {message: "execution
\* reverted"}} and the operation has raised with that message.
C3_Witness ==
  /\ scPc = "raised"
  /\ Len(rpcLog) = 1
  /\ rpcLog[1] = [method |-> "eth_estimateGas", answer |-> "error"]
  /\ rpc.res = [result |-> Undefined, error |-> ErrObj("execution reverted")]
  /\ scResult.message = "execution reverted"

\* True once the then-callback of the request in flight has run.
CallbackRan == rpc.state \in {"resolved", "rejected", "unsettled"}

\* C4: the transport classifies by presence.  A response whose result is
\* defined (0, false and "" included) succeeds with exactly that value even
\* when an error field is present too; a response with no result and an error
\* field fails with error.message, or with the raw error when it has no
\* (or an empty) message.
C4_ClassifiedByPresence ==
  CallbackRan =>
    /\ rpc.res.result # Undefined =>
         rpc.state = "resolved" /\ rpc.value = rpc.res.result
    /\ rpc.res.result = Undefined /\ rpc.res.error # Undefined =>
         /\ rpc.state = "rejected"
         /\ rpc.message = IF rpc.res.error.type = "object" /\ rpc.res.error.str # ""
                          THEN rpc.res.error.str
                          ELSE ErrorText(rpc.res.error)

\* C5: a response with neither a result nor an error completes the call
\* successfully with an undefined result, so a call that received a response
\* is settled once its callback has run.
C5_NeitherIsSuccess ==
  CallbackRan =>
    /\ rpc.state \in {"resolved", "rejected"}
    /\ rpc.res.result = Undefined /\ rpc.res.error = Undefined =>
         rpc.state = "resolved" /\ rpc.value = Undefined

\* C6: transfers share no state and are never retried.  Each invocation
\* fetches the nonce at most once and submits at most once, and a submission
\* without override carries the invocation's own fetched nonce; the network
\* takes at most one transaction per nonce of the account; an invocation
\* whose submission was rejected raises the network's error and does nothing
\* else; an invocation returns only when its transaction was taken.
C6_NonceRaceNoRetry ==
  /\ \A t \in Transfers :
       /\ Count(tCalls[t], "getTransactionCount") <= 1
       /\ Submissions(t) <= 1
       /\ tTx[t].sent /\ tArgs[t].nonce = Undefined =>
            tNonce[t].state = "fulfilled" /\ tTx[t].nonce = tNonce[t].value
       /\ tTx[t].status = "rejected" =>
            /\ tPc[t] \in {"submitted", "raised"}
            /\ tPc[t] = "raised" =>
                 tResult[t] = [kind |-> "raised", message |-> tTx[t].error]
       /\ tPc[t] = "returned" => tTx[t].status = "accepted"
  /\ \A x, y \in chain.accepted : x.nonce = y.nonce => x = y
  /\ \A t, u \in Transfers :
       t # u /\ tTx[t].status = "accepted" /\ tTx[u].status = "accepted"
         => tTx[t].nonce # tTx[u].nonce

\* C6 witness: two invocations without nonce override read the same nonce and
\* both submitted with it; one was taken and the other raised the network's
\* error.
C6_Witness ==
  \E t, u \in Transfers :
    /\ t # u
    /\ tArgs[t].nonce = Undefined /\ tArgs[u].nonce = Undefined
    /\ tNonce[t].state = "fulfilled" /\ tNonce[u].state = "fulfilled"
    /\ tNonce[t].value = tNonce[u].value
    /\ tTx[t].sent /\ tTx[u].sent /\ tTx[t].nonce = tTx[u].nonce
    /\ tPc[t] = "returned"
    /\ tPc[u] = "raised" /\ tResult[u].message = "nonce too low"

\* C7: a smartContractSend request without chainId fails before anything is
\* signed or broadcast, and no default chain id enters the signature.
C7_NoChainIdFails ==
  scArgs.chainId = Undefined =>
    /\ ~scSigned.signed
    /\ \A i \in DOMAIN rpcLog : rpcLog[i].method # "eth_sendRawTransaction"
    /\ scPc # "returned"

\* C8: the resolver returns a context only when every fetch it started has
\* succeeded.  A transfer whose nonce fetch failed has no context to go on
\* with and submits nothing, nonce override or not; a returned context has a
\* signer iff a private key was given, a contract iff a contract address was
\* given, and a resolved nonce iff it has a signer.
C8_NoPartialContext ==
  \A t \in Transfers :
    /\ tNonce[t].state = "rejected" =>
         /\ ~tTx[t].sent
         /\ tPc[t] \notin {"submitted", "returned"}
    /\ tPc[t] \in {"decimals", "estimateGas", "submit", "submitted", "returned"} =>
         /\ tCtx[t].signer = (tArgs[t].privateKey # Undefined)
         /\ tCtx[t].contract.bound = (tArgs[t].tokenAddress # Undefined)
         /\ tCtx[t].signer = tCtx[t].nonce

\* C9: getTokenInfo on a context without contract binding returns undefined
\* and issues none of the four reads; on a context with a binding it issues
\* all four reads and, when it returns, the payload is {success: true, name,
\* symbol, decimals, address, totalSupply} with every field taken from its own
\* read, whatever the order in which the reads settled.
C9_TokenInfo ==
  /\ iCtx.returned /\ ~iCtx.contract.bound =>
       /\ iPc = "returned"
       /\ iResult = [NoInfoResult EXCEPT !.kind = "undefined"]
       /\ iOrder = <<>>
       /\ \A r \in Reads : iReads[r].state = "none"
  /\ iCtx.returned => (iCtx.contract.bound = Truthy(iArgs.address))
  /\ iCtx.returned /\ iCtx.contract.bound =>
       /\ \A r \in Reads : iReads[r].state # "none"
       /\ iResult.kind # "undefined"
       /\ iPc = "returned" =>
            /\ \A r \in Reads : iReads[r].state = "fulfilled"
            /\ iResult.kind = "returned"
            /\ iResult.success
            /\ iResult.name = iReads["name"].value
            /\ iResult.symbol = iReads["symbol"].value
            /\ iResult.decimals = iReads["decimals"].value
            /\ iResult.address = iArgs.address.str
            /\ iResult.totalSupply =
                 Num(iReads["totalSupply"].value.num
                       \div Pow10(iReads["decimals"].value.num))

\* C9 witness: the four reads settled in the reverse of the order they were
\* issued in and getTokenInfo has returned its payload, with a total supply
\* that the formatting truncates.
C9_Witness ==
  /\ iPc = "returned"
  /\ iResult.success
  /\ iOrder = <<"totalSupply", "decimals", "symbol", "name">>
  /\ iReads["totalSupply"].value = Num(150)
  /\ iResult.totalSupply = Num(1)

\* C10: the transaction smartContractSend signs and broadcasts is the call it
\* prepared: data is the encoded call data, to is contractAddress, nonce is
\* the eth_getTransactionCount result, gasLimit is the caller's override or
\* else the estimate, gasPrice is the override (default 100 gwei) in base
\* units.
C10_SignedTxIsPreparedCall ==
  scSigned.signed =>
    /\ scTx.data = scData
    /\ scTx.data = encodeFunctionData(scArgs.method, scArgs.params)
    /\ scTx.to = scArgs.contractAddress
    /\ scTx.nonce = scNonce
    /\ scTx.gasLimit = IF scArgs.gasLimit # Undefined THEN scArgs.gasLimit
                       ELSE scEstimateGas
    /\ scTx.gasPrice = IF scArgs.gasPrice # Undefined
                       THEN BigNumber(ParseDecimal(scArgs.gasPrice.str), 9)
                       ELSE BigNumber(100, 9)

====
